---- MODULE Spec2Model ----
(***************************************************************************)
(* A model of the DefineGrid module of CellProfiler                        *)
(* (pyCellProfiler/cellprofiler/modules/definegrid.py): the per-image run  *)
(* handler, the automatic / coordinates / mouse derivations, the grid      *)
(* builder and the per-run dictionary that holds the "good gridding".      *)
(*                                                                         *)
(* Python floats are modelled by exact rationals <<numerator, denominator>>*)
(* in lowest terms with a positive denominator; int() truncates toward     *)
(* zero as in Python.  Pixel coordinates are small integers.  The gridline *)
(* arrays of the CPGridInfo and the rendering at the end of run (lines     *)
(* 355-371, display) are not part of the model.                            *)
(*                                                                         *)
(* Spec is the pipeline: runs of images in every mode, grid shape and      *)
(* failure policy, numbered from the top left by rows or from the bottom   *)
(* right by columns.  SpecBuild is the grid of a single image, for the     *)
(* properties of build_grid_info and canonical_row_and_column, with every  *)
(* origin and order, a first reference point at a corner cell and a second *)
(* one at any pixel and cell.                                              *)
(* SpecImages is a run whose images are recorded with what was done to     *)
(* them, SpecWorkers a run whose images are processed by several calls of  *)
(* run at once, SpecDialog the dialog of the mouse mode and SpecUpgrade    *)
(* the loading of a saved pipeline (upgrade_settings).                     *)
(***************************************************************************)
EXTENDS Integers, Sequences, FiniteSets, TLC

(***************************************************************************)
(* Bounds of the model.                                                    *)
(***************************************************************************)
MaxCoord == 2
MaxRows == 2
MaxCols == 4
MaxEvents == 1
MaxRuns == 2
MaxCentroids == 2

(***************************************************************************)
(* Module constants (definegrid.py lines 65-101).                          *)
(***************************************************************************)
NUM_TOP_LEFT == "Top left"
NUM_BOTTOM_LEFT == "Bottom left"
NUM_TOP_RIGHT == "Top right"
NUM_BOTTOM_RIGHT == "Bottom right"
NUM_BY_ROWS == "Rows"
NUM_BY_COLUMNS == "Columns"

EO_EACH == "Each cycle"
EO_ONCE == "Once"

AM_AUTOMATIC == "Automatic"
AM_MANUAL == "Manual"

MAN_MOUSE == "Mouse"
MAN_COORDINATES == "Coordinates"

FAIL_NO == "No"
FAIL_ANY_PREVIOUS == "Any Previous"
FAIL_FIRST == "The First"

GOOD_GRIDDING == "GoodGridding"

M_CATEGORY == "DefinedGrid"
F_X_LOCATION_OF_LOWEST_X_SPOT == "XLocationOfLowestXSpot"
F_Y_LOCATION_OF_LOWEST_Y_SPOT == "YLocationOfLowestYSpot"
F_X_SPACING == "XSpacing"
F_Y_SPACING == "YSpacing"
F_ROWS == "Rows"
F_COLUMNS == "Columns"

\* wx.OK and wx.CANCEL, the two ways the grid editing dialog is closed
WX_OK == "OK"
WX_CANCEL == "CANCEL"

\* Initial contents of the X / Y text boxes of the two cells in the dialog
MouseFirstXY == 100
MouseSecondXY == 200

(***************************************************************************)
(* Python values: None, exceptions, floats.                                *)
(***************************************************************************)
None == [type |-> "None"]

RuntimeError(msg) == [type |-> "RuntimeError", msg |-> msg]
ZeroDivisionError == [type |-> "ZeroDivisionError", msg |-> "float division"]
ValueError == [type |-> "ValueError", msg |-> "zero-size array"]

IsException(v) == v.type \in {"RuntimeError", "ZeroDivisionError", "ValueError"}

TOO_FEW == "too few grid cells"
TOO_FEW_NO_PREVIOUS == "too few grid cells and there is no previous successful grid"
ABORTED == "Pipeline aborted during grid editing"

Abs(n) == IF n < 0 THEN -n ELSE n

RECURSIVE GCD(_, _)
GCD(a, b) == IF b = 0 THEN a ELSE GCD(b, a % b)

\* the float n / d (d # 0), in lowest terms with a positive denominator
Float(n, d) ==
    LET g == GCD(Abs(n), Abs(d))
        sgn == IF d < 0 THEN -1 ELSE 1
    IN  << sgn * (n \div g), sgn * (d \div g) >>

\* A variant of the division whose dividend is the difference taken the
\* other way round (second - first over first - second)
FloatDiv_reversed(a, b) == Float(-a, b)

\* float(a) / float(b) with b # 0
FloatDiv(a, b) == Float(a, b)

\* n - k * f   for the integers n, k and the float f
IntMinusTimes(n, k, f) == Float(n * f[2] - k * f[1], f[2])

\* A variant of n + k * f that counts k from 1 (arange(1, columns + 1))
IntPlusTimes_from_one(n, k, f) == Float(n * f[2] + (k + 1) * f[1], f[2])

\* n + k * f   for the integers n, k and the float f
IntPlusTimes(n, k, f) == Float(n * f[2] + k * f[1], f[2])

\* f * k
FloatTimes(f, k) == Float(f[1] * k, f[2])

\* A variant of int that rounds down (floor) instead of toward zero
int_floor(f) == IF f[1] >= 0 \/ f[1] % f[2] = 0
                THEN f[1] \div f[2]
                ELSE -((-f[1]) \div f[2]) - 1

\* Python's int(f): truncation toward zero
int(f) == IF f[1] >= 0 THEN f[1] \div f[2] ELSE -((-f[1]) \div f[2])

(***************************************************************************)
(* canonical_row_and_column, definegrid.py lines 647-662.                  *)
(* s is the record of the module's settings.                               *)
(***************************************************************************)
\* A variant of canonical_row_and_column that counts the rows from the
\* bottom and the columns from the right starting at 1
canonical_row_and_column_from_one(s, row, column) ==
    LET r == IF s.origin \in {NUM_BOTTOM_LEFT, NUM_BOTTOM_RIGHT}
             THEN s.grid_rows - row + 1
             ELSE row - 1
        c == IF s.origin \in {NUM_TOP_RIGHT, NUM_BOTTOM_RIGHT}
             THEN s.grid_columns - column + 1
             ELSE column - 1
    IN  << r, c >>

\* A variant of canonical_row_and_column that counts a column from the
\* right with the number of rows
canonical_row_and_column_mixed(s, row, column) ==
    LET r == IF s.origin \in {NUM_BOTTOM_LEFT, NUM_BOTTOM_RIGHT}
             THEN s.grid_rows - row
             ELSE row - 1
        c == IF s.origin \in {NUM_TOP_RIGHT, NUM_BOTTOM_RIGHT}
             THEN s.grid_rows - column
             ELSE column - 1
    IN  << r, c >>

canonical_row_and_column(s, row, column) ==
    LET r == IF s.origin \in {NUM_BOTTOM_LEFT, NUM_BOTTOM_RIGHT}
             THEN s.grid_rows - row
             ELSE row - 1
        c == IF s.origin \in {NUM_TOP_RIGHT, NUM_BOTTOM_RIGHT}
             THEN s.grid_columns - column
             ELSE column - 1
    IN  << r, c >>

(***************************************************************************)
(* The spot table of build_grid_info, lines 633-644, as a sequence of rows *)
(* (spot_table[r + 1][c + 1] is numpy's spot_table[r, c]).                 *)
(***************************************************************************)
\* Variants of the spot table before the flips: the numbers advance by the
\* length of the other axis, ...
SpotTableBase_wrong_stride(s) ==
    LET rows == s.grid_rows
        columns == s.grid_columns
    IN  IF s.ordering = NUM_BY_COLUMNS
        THEN [r \in 1..rows |-> [c \in 1..columns |-> (r - 1) * rows + (c - 1) + 1]]
        ELSE [r \in 1..rows |-> [c \in 1..columns |-> (c - 1) * columns + (r - 1) + 1]]

\* ... the test of the ordering is the other way round, ...
SpotTableBase_swapped(s) ==
    LET rows == s.grid_rows
        columns == s.grid_columns
    IN  IF s.ordering = NUM_BY_ROWS
        THEN [r \in 1..rows |-> [c \in 1..columns |-> (r - 1) * columns + (c - 1) + 1]]
        ELSE [r \in 1..rows |-> [c \in 1..columns |-> (c - 1) * rows + (r - 1) + 1]]

\* ... and the numbers start at 0 (arange without the + 1)
SpotTableBase_from_zero(s) ==
    LET rows == s.grid_rows
        columns == s.grid_columns
    IN  IF s.ordering = NUM_BY_COLUMNS
        THEN [r \in 1..rows |-> [c \in 1..columns |-> (r - 1) * columns + (c - 1)]]
        ELSE [r \in 1..rows |-> [c \in 1..columns |-> (c - 1) * rows + (r - 1)]]

SpotTableBase(s) ==
    LET rows == s.grid_rows
        columns == s.grid_columns
    IN  IF s.ordering = NUM_BY_COLUMNS
        THEN \* arange reshaped to (rows, columns)
             [r \in 1..rows |-> [c \in 1..columns |-> (r - 1) * columns + (c - 1) + 1]]
        ELSE \* arange reshaped to (columns, rows), then transposed
             [r \in 1..rows |-> [c \in 1..columns |-> (c - 1) * rows + (r - 1) + 1]]

\* A variant of FlipRows without the top-bottom flip of lines 638-640
FlipRows_none(s, t) == t

FlipRows(s, t) ==
    IF s.origin \in {NUM_BOTTOM_LEFT, NUM_BOTTOM_RIGHT}
    THEN [r \in 1..Len(t) |-> t[Len(t) + 1 - r]]
    ELSE t

\* A variant of FlipColumns without the left-right flip of lines 642-644
FlipColumns_none(s, t) == t

FlipColumns(s, t) ==
    IF s.origin \in {NUM_TOP_RIGHT, NUM_BOTTOM_RIGHT}
    THEN [r \in 1..Len(t) |-> [c \in 1..Len(t[r]) |-> t[r][Len(t[r]) + 1 - c]]]
    ELSE t

SpotTable(s) == FlipColumns(s, FlipRows(s, SpotTableBase(s)))

(***************************************************************************)
(* build_grid_info, definegrid.py lines 575-645.  Returns the CPGridInfo   *)
(* or the exception that the float divisions of lines 583-586 raise.       *)
(***************************************************************************)
\* A variant of build_grid_info whose divisions by zero give 0 instead of
\* raising
build_grid_info_no_raise(s, first_x, first_y, first_row, first_col, second_x, second_y, second_row, second_col) ==
    LET first == canonical_row_and_column(s, first_row, first_col)
        second == canonical_row_and_column(s, second_row, second_col)
        frow == first[1]
        fcol == first[2]
        srow == second[1]
        scol == second[2]
    IN    LET x_spacing == IF fcol - scol = 0 THEN << 0, 1 >>
                           ELSE FloatDiv(first_x - second_x, fcol - scol)
              y_spacing == IF frow - srow = 0 THEN << 0, 1 >>
                           ELSE FloatDiv(first_y - second_y, frow - srow)
              x_loc == int(IntMinusTimes(first_x, fcol, x_spacing))
              y_loc == int(IntMinusTimes(first_y, frow, y_spacing))
          IN  [type |-> "CPGridInfo",
               x_spacing |-> x_spacing,
               y_spacing |-> y_spacing,
               x_location_of_lowest_x_spot |-> x_loc,
               y_location_of_lowest_y_spot |-> y_loc,
               rows |-> s.grid_rows,
               columns |-> s.grid_columns,
               left_to_right |-> s.origin \in {NUM_TOP_LEFT, NUM_BOTTOM_LEFT},
               top_to_bottom |-> s.origin \in {NUM_TOP_LEFT, NUM_TOP_RIGHT},
               total_width |-> FloatTimes(x_spacing, s.grid_columns),
               total_height |-> FloatTimes(y_spacing, s.grid_rows),
               x_locations |-> [c \in 1..s.grid_columns |->
                                   int(IntPlusTimes(x_loc, c - 1, x_spacing))],
               y_locations |-> [r \in 1..s.grid_rows |->
                                   int(IntPlusTimes(y_loc, r - 1, y_spacing))],
               spot_table |-> SpotTable(s)]

build_grid_info(s, first_x, first_y, first_row, first_col, second_x, second_y, second_row, second_col) ==
    LET first == canonical_row_and_column(s, first_row, first_col)
        second == canonical_row_and_column(s, second_row, second_col)
        frow == first[1]
        fcol == first[2]
        srow == second[1]
        scol == second[2]
    IN  IF fcol - scol = 0 \/ frow - srow = 0
        THEN ZeroDivisionError
        ELSE
          LET x_spacing == FloatDiv(first_x - second_x, fcol - scol)
              y_spacing == FloatDiv(first_y - second_y, frow - srow)
              x_loc == int(IntMinusTimes(first_x, fcol, x_spacing))
              y_loc == int(IntMinusTimes(first_y, frow, y_spacing))
          IN  [type |-> "CPGridInfo",
               x_spacing |-> x_spacing,
               y_spacing |-> y_spacing,
               x_location_of_lowest_x_spot |-> x_loc,
               y_location_of_lowest_y_spot |-> y_loc,
               rows |-> s.grid_rows,
               columns |-> s.grid_columns,
               left_to_right |-> s.origin \in {NUM_TOP_LEFT, NUM_BOTTOM_LEFT},
               top_to_bottom |-> s.origin \in {NUM_TOP_LEFT, NUM_TOP_RIGHT},
               total_width |-> FloatTimes(x_spacing, s.grid_columns),
               total_height |-> FloatTimes(y_spacing, s.grid_rows),
               x_locations |-> [c \in 1..s.grid_columns |->
                                   int(IntPlusTimes(x_loc, c - 1, x_spacing))],
               y_locations |-> [r \in 1..s.grid_rows |->
                                   int(IntPlusTimes(y_loc, r - 1, y_spacing))],
               spot_table |-> SpotTable(s)]

(***************************************************************************)
(* The module dictionary of the run: get_dictionary(image_set_list) is the *)
(* dictionary that belongs to the run's image set list; it is a function   *)
(* whose domain is the set of keys it holds.                               *)
(***************************************************************************)
EmptyDictionary == [k \in {} |-> None]

\* get_good_gridding, lines 721-724: d.get(GOOD_GRIDDING, None)
get_good_gridding(d) ==
    IF GOOD_GRIDDING \in DOMAIN d THEN d[GOOD_GRIDDING] ELSE None

\* Variants of set_good_gridding with a slip in the test of line 729:
\* the gridding is stored whatever the choice and the dictionary are, ...
set_good_gridding_always(s, d, gridding) ==
    [k \in DOMAIN d \cup {GOOD_GRIDDING} |->
        IF k = GOOD_GRIDDING THEN gridding ELSE d[k]]

\* ... it is stored only when the dictionary has none yet, ...
set_good_gridding_first_only(s, d, gridding) ==
    IF GOOD_GRIDDING \notin DOMAIN d
    THEN [k \in DOMAIN d \cup {GOOD_GRIDDING} |->
             IF k = GOOD_GRIDDING THEN gridding ELSE d[k]]
    ELSE d

\* ... and it is not stored when the choice is "No"
set_good_gridding_not_for_no(s, d, gridding) ==
    IF s.failed_grid_choice = FAIL_NO
    THEN d
    ELSE IF s.failed_grid_choice = FAIL_ANY_PREVIOUS \/ GOOD_GRIDDING \notin DOMAIN d
    THEN [k \in DOMAIN d \cup {GOOD_GRIDDING} |->
             IF k = GOOD_GRIDDING THEN gridding ELSE d[k]]
    ELSE d

\* set_good_gridding, lines 726-731; the value is the dictionary afterwards
set_good_gridding(s, d, gridding) ==
    IF s.failed_grid_choice = FAIL_ANY_PREVIOUS \/ GOOD_GRIDDING \notin DOMAIN d
    THEN [k \in DOMAIN d \cup {GOOD_GRIDDING} |->
             IF k = GOOD_GRIDDING THEN gridding ELSE d[k]]
    ELSE d

(***************************************************************************)
(* run_automatic, lines 373-407.  centroids is the set of <<y, x>> centers *)
(* of the labelled objects (centroids[0,:] are the y, centroids[1,:] the   *)
(* x coordinates).                                                         *)
(***************************************************************************)
Min(S) == CHOOSE m \in S : \A n \in S : m <= n
Max(S) == CHOOSE m \in S : \A n \in S : m >= n

\* A variant of grid_of_centroids without the swaps of lines 396-401
grid_of_centroids_no_swap(s, centroids) ==
    IF centroids = {}
    THEN ValueError
    ELSE LET first_x == Min({p[2] : p \in centroids})
             first_y == Min({p[1] : p \in centroids})
             second_x == Max({p[2] : p \in centroids})
             second_y == Max({p[1] : p \in centroids})
         IN  build_grid_info(s, first_x, first_y, 1, 1,
                             second_x, second_y, s.grid_rows, s.grid_columns)

\* lines 393-407: the grid spanned by the extreme centroids
grid_of_centroids(s, centroids) ==
    IF centroids = {}
    THEN ValueError       \* np.min of an empty array
    ELSE LET swap_rows == s.origin \in {NUM_BOTTOM_LEFT, NUM_BOTTOM_RIGHT}
             swap_cols == s.origin \in {NUM_TOP_RIGHT, NUM_BOTTOM_RIGHT}
             first_row == IF swap_rows THEN s.grid_rows ELSE 1
             second_row == IF swap_rows THEN 1 ELSE s.grid_rows
             first_column == IF swap_cols THEN s.grid_columns ELSE 1
             second_column == IF swap_cols THEN 1 ELSE s.grid_columns
             first_x == Min({p[2] : p \in centroids})
             first_y == Min({p[1] : p \in centroids})
             second_x == Max({p[2] : p \in centroids})
             second_y == Max({p[1] : p \in centroids})
         IN  build_grid_info(s, first_x, first_y, first_row, first_column,
                             second_x, second_y, second_row, second_column)

\* Variants of run_automatic: the test of failed_grid_choice at line 384
\* is missing, ...
run_automatic_no_choice(s, d, centroids) ==
    IF Cardinality(centroids) < 2
    THEN LET result == get_good_gridding(d)
         IN  IF result = None
             THEN RuntimeError(TOO_FEW_NO_PREVIOUS)
             ELSE result
    ELSE grid_of_centroids(s, centroids)

\* ... the dictionary's gridding is returned only when there is one, and
\* otherwise the grid is derived from the centroids, ...
run_automatic_no_raise(s, d, centroids) ==
    IF Cardinality(centroids) < 2
         /\ s.failed_grid_choice = FAIL_NO
    THEN RuntimeError(TOO_FEW)
    ELSE IF Cardinality(centroids) < 2 /\ get_good_gridding(d) # None
    THEN get_good_gridding(d)
    ELSE grid_of_centroids(s, centroids)

\* ... and the test of line 380 is off by one
run_automatic_off_by_one(s, d, centroids) ==
    IF Cardinality(centroids) < 1
    THEN IF s.failed_grid_choice = FAIL_NO
         THEN RuntimeError(TOO_FEW)
         ELSE LET result == get_good_gridding(d)
              IN  IF result = None
                  THEN RuntimeError(TOO_FEW_NO_PREVIOUS)
                  ELSE result
    ELSE grid_of_centroids(s, centroids)

\* A variant of run_automatic that returns the gridding of the dictionary
\* whenever there is one and the choice is not "No"
run_automatic_cache_first(s, d, centroids) ==
    IF s.failed_grid_choice # FAIL_NO /\ get_good_gridding(d) # None
    THEN get_good_gridding(d)
    ELSE IF Cardinality(centroids) < 2
    THEN IF s.failed_grid_choice = FAIL_NO
         THEN RuntimeError(TOO_FEW)
         ELSE RuntimeError(TOO_FEW_NO_PREVIOUS)
    ELSE grid_of_centroids(s, centroids)

run_automatic_falls_back(s, d, centroids) ==
    IF Cardinality(centroids) < 2
    THEN IF s.failed_grid_choice = FAIL_NO
         THEN RuntimeError(TOO_FEW)
         ELSE LET result == get_good_gridding(d)
              IN  IF result = None
                  THEN RuntimeError(TOO_FEW_NO_PREVIOUS)
                  ELSE result
    ELSE LET derived == grid_of_centroids(s, centroids)
         IN  IF /\ IsException(derived)
                /\ s.failed_grid_choice # FAIL_NO
                /\ get_good_gridding(d) # None
             THEN get_good_gridding(d)
             ELSE derived

run_automatic(s, d, centroids) ==
    IF Cardinality(centroids) < 2
    THEN IF s.failed_grid_choice = FAIL_NO
         THEN RuntimeError(TOO_FEW)
         ELSE LET result == get_good_gridding(d)
              IN  IF result = None
                  THEN RuntimeError(TOO_FEW_NO_PREVIOUS)
                  ELSE result
    ELSE grid_of_centroids(s, centroids)

(***************************************************************************)
(* run_coordinates, lines 409-421.                                         *)
(***************************************************************************)
run_coordinates(s) ==
    build_grid_info(s, s.first_spot_coordinates.x, s.first_spot_coordinates.y,
                    s.first_spot_row, s.first_spot_col,
                    s.second_spot_coordinates.x, s.second_spot_coordinates.y,
                    s.second_spot_row, s.second_spot_col)

(***************************************************************************)
(* run_mouse, lines 423-561.  The dialog holds the X / Y text boxes of the *)
(* two cells, the radio box selection and gridding[0]; the row and column  *)
(* boxes keep their initial values.  events is the sequence of the user's  *)
(* button releases and Redisplay presses, status the button that closes    *)
(* the dialog.                                                             *)
(***************************************************************************)
\* redisplay, lines 521-531: an exception raised inside the event handler
\* does not reach run_mouse, gridding[0] keeps its value
redisplay(s, dlg) ==
    LET g == build_grid_info(s, dlg.first_x, dlg.first_y, 1, 1,
                             dlg.second_x, dlg.second_y,
                             s.grid_rows, s.grid_columns)
    IN  IF IsException(g) THEN dlg ELSE [dlg EXCEPT !.gridding = g]

\* A variant of button_release that leaves the choice of the current cell
\* as it is (without lines 546 and 550)
button_release_same_cell(s, dlg, event) ==
    IF event.inaxes
    THEN IF dlg.selection = 0
         THEN redisplay(s, [dlg EXCEPT !.first_x = int(event.xdata),
                                       !.first_y = int(event.ydata)])
         ELSE redisplay(s, [dlg EXCEPT !.second_x = int(event.xdata),
                                       !.second_y = int(event.ydata)])
    ELSE dlg

\* button_release, lines 541-551
button_release(s, dlg, event) ==
    IF event.inaxes
    THEN IF dlg.selection = 0
         THEN redisplay(s, [dlg EXCEPT !.first_x = int(event.xdata),
                                       !.first_y = int(event.ydata),
                                       !.selection = 1])
         ELSE redisplay(s, [dlg EXCEPT !.second_x = int(event.xdata),
                                       !.second_y = int(event.ydata),
                                       !.selection = 0])
    ELSE dlg

RECURSIVE ShowModal(_, _, _)
ShowModal(s, dlg, events) ==
    IF events = << >>
    THEN dlg
    ELSE LET e == Head(events)
             next == IF e.type = "button_release"
                     THEN button_release(s, dlg, e)
                     ELSE redisplay(s, dlg)
         IN  ShowModal(s, next, Tail(events))

run_mouse(s, events, status) ==
    LET first == build_grid_info(s, MouseFirstXY, MouseFirstXY, 1, 1,
                                 MouseSecondXY, MouseSecondXY,
                                 s.grid_rows, s.grid_columns)
    IN  IF IsException(first)
        THEN first          \* the redisplay(None) of line 552 raises
        ELSE LET dlg0 == [first_x |-> MouseFirstXY, first_y |-> MouseFirstXY,
                          second_x |-> MouseSecondXY, second_y |-> MouseSecondXY,
                          selection |-> 0, gridding |-> first]
                 dlg == ShowModal(s, dlg0, events)
             IN  IF status # WX_OK
                 THEN RuntimeError(ABORTED)
                 ELSE dlg.gridding

(***************************************************************************)
(* get_feature_name, lines 563-564, and the measurements of run, lines     *)
(* 347-354.  A feature name is the tuple that '_'.join concatenates.       *)
(***************************************************************************)
get_feature_name(s, feature) == << M_CATEGORY, s.grid_image, feature >>

Features == {F_X_LOCATION_OF_LOWEST_X_SPOT, F_Y_LOCATION_OF_LOWEST_Y_SPOT,
             F_ROWS, F_COLUMNS, F_X_SPACING, F_Y_SPACING}

FeatureValue(gridding, feature) ==
    CASE feature = F_X_LOCATION_OF_LOWEST_X_SPOT -> gridding.x_location_of_lowest_x_spot
      [] feature = F_Y_LOCATION_OF_LOWEST_Y_SPOT -> gridding.y_location_of_lowest_y_spot
      [] feature = F_ROWS -> gridding.rows
      [] feature = F_COLUMNS -> gridding.columns
      [] feature = F_X_SPACING -> gridding.x_spacing
      [] feature = F_Y_SPACING -> gridding.y_spacing

NoMeasurements == [n \in {} |-> 0]

\* A variant of add_measurements without the measurement of the columns
add_measurements_without_columns(s, gridding) ==
    [n \in {get_feature_name(s, f) : f \in Features \ {F_COLUMNS}} |->
        FeatureValue(gridding, n[3])]

add_measurements(s, gridding) ==
    [n \in {get_feature_name(s, f) : f \in Features} |-> FeatureValue(gridding, n[3])]

\* get_measurement_columns, lines 802-821: (object name, feature name,
\* column type) of each measurement the module declares
IMAGE == "Image"
COLTYPE_INTEGER == "integer"
COLTYPE_FLOAT == "float"

get_measurement_columns(s) ==
    << << IMAGE, get_feature_name(s, F_ROWS), COLTYPE_INTEGER >>,
       << IMAGE, get_feature_name(s, F_COLUMNS), COLTYPE_INTEGER >>,
       << IMAGE, get_feature_name(s, F_X_SPACING), COLTYPE_FLOAT >>,
       << IMAGE, get_feature_name(s, F_Y_SPACING), COLTYPE_FLOAT >>,
       << IMAGE, get_feature_name(s, F_X_LOCATION_OF_LOWEST_X_SPOT), COLTYPE_FLOAT >>,
       << IMAGE, get_feature_name(s, F_Y_LOCATION_OF_LOWEST_Y_SPOT), COLTYPE_FLOAT >> >>

(***************************************************************************)
(* run, lines 323-354.  w is the workspace of the image: the centroids of  *)
(* its objects and what the user does in the dialog.  The value is the     *)
(* exception raised (or None), the dictionary afterwards, the grid         *)
(* registered under the grid name and the measurements added.              *)
(***************************************************************************)
\* A variant of run that registers the gridding of the dictionary in the
\* "Once" branch of lines 333-335, before the derivation
run_registers_early(s, d, w) ==
    LET once == IF s.each_or_once = EO_ONCE /\ get_good_gridding(d) # None
                THEN get_good_gridding(d)
                ELSE None
        gridding == IF s.auto_or_manual = AM_AUTOMATIC
                    THEN run_automatic(s, d, w.centroids)
                    ELSE IF s.manual_choice = MAN_COORDINATES
                    THEN run_coordinates(s)
                    ELSE IF s.manual_choice = MAN_MOUSE
                    THEN run_mouse(s, w.events, w.status)
                    ELSE once
    IN  IF IsException(gridding)
        THEN [raised |-> gridding, dictionary |-> d, grid |-> once,
              measurements |-> NoMeasurements]
        ELSE [raised |-> None,
              dictionary |-> set_good_gridding(s, d, gridding),
              grid |-> gridding,
              measurements |-> add_measurements(s, gridding)]

\* A variant of run with "elif" at line 336: with "Once" a stored gridding
\* is used in place of a new derivation
run_once_reuses(s, d, w) ==
    LET once == IF s.each_or_once = EO_ONCE /\ get_good_gridding(d) # None
                THEN get_good_gridding(d)
                ELSE None
        gridding == IF once # None
                    THEN once
                    ELSE IF s.auto_or_manual = AM_AUTOMATIC
                    THEN run_automatic(s, d, w.centroids)
                    ELSE IF s.manual_choice = MAN_COORDINATES
                    THEN run_coordinates(s)
                    ELSE IF s.manual_choice = MAN_MOUSE
                    THEN run_mouse(s, w.events, w.status)
                    ELSE once
    IN  IF IsException(gridding)
        THEN [raised |-> gridding, dictionary |-> d, grid |-> None,
              measurements |-> NoMeasurements]
        ELSE [raised |-> None,
              dictionary |-> set_good_gridding(s, d, gridding),
              grid |-> gridding,
              measurements |-> add_measurements(s, gridding)]

\* lines 341-354 of run: the gridding is stored, registered and measured
\* (an exception raised by the derivation leaves run before that)
run_registers(s, d, gridding) ==
    IF IsException(gridding)
    THEN [raised |-> gridding, dictionary |-> d, grid |-> None,
          measurements |-> NoMeasurements]
    ELSE [raised |-> None,
          dictionary |-> set_good_gridding(s, d, gridding),
          grid |-> gridding,
          measurements |-> add_measurements(s, gridding)]

run(s, d, w) ==
    LET once == IF s.each_or_once = EO_ONCE /\ get_good_gridding(d) # None
                THEN get_good_gridding(d)
                ELSE None
        \* "if", not "elif", at line 336: the branches below assign gridding again
        gridding == IF s.auto_or_manual = AM_AUTOMATIC
                    THEN run_automatic(s, d, w.centroids)
                    ELSE IF s.manual_choice = MAN_COORDINATES
                    THEN run_coordinates(s)
                    ELSE IF s.manual_choice = MAN_MOUSE
                    THEN run_mouse(s, w.events, w.status)
                    ELSE once
    IN  run_registers(s, d, gridding)

(***************************************************************************)
(* The state.                                                              *)
(*   settings        the module's settings, fixed while the pipeline runs  *)
(*   image_set_list  the number of the run (each run has its own image set *)
(*                   list)                                                 *)
(*   dictionary      get_dictionary(image_set_list) of the current run     *)
(*   grid            what the workspace of the latest image holds under    *)
(*                   the grid name (None when nothing was registered)      *)
(*   measurements    the image measurements of the latest image            *)
(*   outcome         history of the latest call of run: whether it ran,    *)
(*                   what it raised, whether the image had fewer than 2    *)
(*                   centroids in automatic mode                           *)
(*   first_success   history: the grid built from the first image of this  *)
(*                   run whose derivation succeeded (None before)          *)
(*   last_success    history: the grid built from the latest image of this *)
(*                   run whose derivation succeeded (None before)          *)
(*   workspace       the objects and the user input of the image at hand   *)
(*                   under SpecBuild and SpecImages; Spec                  *)
(*                   draws them in each step and does not record them      *)
(*   workers         the calls of run in progress when several images of   *)
(*                   the run are processed at once (SpecWorkers): where    *)
(*                   each call is and the gridding it holds                *)
(*   saved           the setting values of a saved pipeline and what       *)
(*                   upgrade_settings returned for them (SpecUpgrade)      *)
(***************************************************************************)
VARIABLES settings, image_set_list, dictionary, grid, measurements,
          outcome, first_success, last_success, workspace, workers, saved

vars == << settings, image_set_list, dictionary, grid, measurements,
           outcome, first_success, last_success, workspace, workers, saved >>

\* the pixel positions <<y, x>> of the centroids of the objects: the
\* objects lie on the diagonal of the image
Points == { << k, k >> : k \in 0..MaxCoord }

\* the pixel <<y, x>> of the image on which the user releases the mouse button
ClickPoints == { << MaxCoord, MaxCoord >> }

Origins == {NUM_TOP_LEFT, NUM_BOTTOM_LEFT, NUM_TOP_RIGHT, NUM_BOTTOM_RIGHT}
Orderings == {NUM_BY_ROWS, NUM_BY_COLUMNS}
FailChoices == {FAIL_NO, FAIL_ANY_PREVIOUS, FAIL_FIRST}

\* << rows, columns >> of the grid: a single row, a single column, or the
\* largest grid of the model
GridShapes == { << 1, MaxCols >>, << MaxRows, 1 >>, << MaxRows, MaxCols >> }

\* the settings with the defaults of create_settings (lines 204-245) for
\* the two spots
DefaultSpots ==
    [first_spot_coordinates : {[x |-> 0, y |-> 0]},
     first_spot_row : {1}, first_spot_col : {1},
     second_spot_coordinates : {[x |-> 0, y |-> 0]},
     second_spot_row : {1}, second_spot_col : {1}]

\* the spots a user enters in the coordinates mode: the first spot keeps
\* its defaults, the second one is any cell of the grid at any pixel
EnteredSpots(rows, columns) ==
    [first_spot_coordinates : {[x |-> 0, y |-> 0]},
     first_spot_row : {1}, first_spot_col : {1},
     second_spot_coordinates : {[x |-> p[2], y |-> p[1]] : p \in Points},
     second_spot_row : 1..rows, second_spot_col : 1..columns]

Modes == { << AM_AUTOMATIC, MAN_MOUSE >>, << AM_MANUAL, MAN_MOUSE >>,
           << AM_MANUAL, MAN_COORDINATES >> }

SpotsOf(mode, shape) ==
    IF mode = << AM_MANUAL, MAN_COORDINATES >>
    THEN EnteredSpots(shape[1], shape[2])
    ELSE DefaultSpots

\* the settings of a grid of the shape << rows, columns >> in the mode,
\* numbered from the origin x[1] in the order x[2], with the spots sp
BuildSetting(mode, shape, x, sp) ==
    [grid_image |-> "Grid",
     grid_rows |-> shape[1], grid_columns |-> shape[2],
     origin |-> x[1], ordering |-> x[2],
     each_or_once |-> EO_EACH, failed_grid_choice |-> FAIL_NO,
     auto_or_manual |-> mode[1], manual_choice |-> mode[2],
     first_spot_coordinates |-> sp.first_spot_coordinates,
     first_spot_row |-> sp.first_spot_row,
     first_spot_col |-> sp.first_spot_col,
     second_spot_coordinates |-> sp.second_spot_coordinates,
     second_spot_row |-> sp.second_spot_row,
     second_spot_col |-> sp.second_spot_col]

\* the numberings of the grids of a pipeline: from the top left by rows and
\* from the bottom right by columns (the grid of every origin and order is
\* the subject of SpecBuild)
Numberings == { << NUM_TOP_LEFT, NUM_BY_ROWS >>, << NUM_BOTTOM_RIGHT, NUM_BY_COLUMNS >> }

NotRun == [ran |-> FALSE, raised |-> None, too_few |-> FALSE]

\* a workspace without objects and without user input
NoWorkspace == [centroids |-> {}, events |-> << >>, status |-> WX_OK]

\* no call of run in progress, no saved pipeline
NoWorkers == << >>
NoSaved == [loaded |-> FALSE]

Init ==
    /\ \E mode \in Modes, shape \in GridShapes, x \in Numberings :
         \E e \in {EO_EACH, EO_ONCE}, f \in FailChoices, sp \in SpotsOf(mode, shape) :
            settings = [BuildSetting(mode, shape, x, sp) EXCEPT
                           !.each_or_once = e, !.failed_grid_choice = f]
    /\ image_set_list = 1
    /\ dictionary = EmptyDictionary
    /\ grid = None
    /\ measurements = NoMeasurements
    /\ outcome = NotRun
    /\ first_success = None
    /\ last_success = None
    /\ workspace = NoWorkspace
    /\ workers = NoWorkers
    /\ saved = NoSaved

(***************************************************************************)
(* The pipeline calls run for the next image of the run.  The derivation   *)
(* of an image succeeded when run returned and the image did not have too  *)
(* few centroids (so the grid was built from the image, not taken from the *)
(* dictionary).                                                            *)
(***************************************************************************)
Run(w) ==
    \E r \in {run(settings, dictionary, w)} :
      LET too_few == /\ settings.auto_or_manual = AM_AUTOMATIC
                     /\ Cardinality(w.centroids) < 2
          success == r.raised = None /\ ~too_few
      IN  /\ dictionary' = r.dictionary
          /\ grid' = r.grid
          /\ measurements' = r.measurements
          /\ outcome' = [ran |-> TRUE, raised |-> r.raised, too_few |-> too_few]
          /\ first_success' = IF success /\ first_success = None
                              THEN r.grid ELSE first_success
          /\ last_success' = IF success THEN r.grid ELSE last_success
          /\ UNCHANGED << settings, image_set_list, workspace, workers, saved >>

\* what the user can do in the dialog: release the mouse button at a pixel
\* of the image or outside of the axes, or press Redisplay
MouseEvents ==
    { [type |-> "button_release", inaxes |-> TRUE,
       xdata |-> Float(p[2], 1), ydata |-> Float(p[1], 1)] : p \in ClickPoints }
    \cup { [type |-> "button_release", inaxes |-> FALSE,
             xdata |-> Float(0, 1), ydata |-> Float(0, 1)] }
    \cup { [type |-> "redisplay", inaxes |-> FALSE,
             xdata |-> Float(0, 1), ydata |-> Float(0, 1)] }

EventSeqs == UNION { [1..n -> MouseEvents] : n \in 0..MaxEvents }

RunAutomatic ==
    /\ settings.auto_or_manual = AM_AUTOMATIC
    /\ \E centroids \in SUBSET Points :
         Run([centroids |-> centroids, events |-> << >>, status |-> WX_OK])

RunCoordinates ==
    /\ settings.auto_or_manual = AM_MANUAL
    /\ settings.manual_choice = MAN_COORDINATES
    /\ Run([centroids |-> {}, events |-> << >>, status |-> WX_OK])

RunMouse ==
    /\ settings.auto_or_manual = AM_MANUAL
    /\ settings.manual_choice = MAN_MOUSE
    /\ \E events \in EventSeqs, status \in {WX_OK, WX_CANCEL} :
         Run([centroids |-> {}, events |-> events, status |-> status])

(***************************************************************************)
(* A new run of the pipeline: a new image set list, whose dictionary is    *)
(* empty.                                                                  *)
(***************************************************************************)
NewRun ==
    /\ image_set_list < MaxRuns
    /\ image_set_list' = image_set_list + 1
    /\ dictionary' = EmptyDictionary
    /\ grid' = None
    /\ measurements' = NoMeasurements
    /\ outcome' = NotRun
    /\ first_success' = None
    /\ last_success' = None
    /\ UNCHANGED << settings, workspace, workers, saved >>

Next == RunAutomatic \/ RunCoordinates \/ RunMouse \/ NewRun

Spec == Init /\ [][Next]_vars

TypeOK ==
    /\ image_set_list \in 1..MaxRuns
    /\ DOMAIN dictionary \subseteq {GOOD_GRIDDING}
    /\ grid.type \in {"None", "CPGridInfo"}

(***************************************************************************)
(* The grid of a single image.  The settings are those of the coordinates  *)
(* mode, whose first spot is a corner cell of the grid at one of the two   *)
(* pixels of BuildFirstPixels and whose second is any cell at any pixel,   *)
(* and those of the automatic mode, whose workspace holds up to            *)
(* MaxCentroids centroids at any pixels.  The grid is defined for each     *)
(* cycle and a failure raises.                                             *)
(***************************************************************************)
BuildPixels == (0..MaxCoord) \X (0..MaxCoord)

\* the pixels of the first spot: the corner of the image and the pixel
\* next to it on the diagonal
BuildFirstPixels == { << 0, 0 >>, << 1, 1 >> }

BuildSpots(rows, columns) ==
    [first_spot_coordinates : {[x |-> p[2], y |-> p[1]] : p \in BuildFirstPixels},
     first_spot_row : {1, rows}, first_spot_col : {1, columns},
     second_spot_coordinates : {[x |-> p[2], y |-> p[1]] : p \in BuildPixels},
     second_spot_row : 1..rows, second_spot_col : 1..columns]

BuildModes == { << AM_AUTOMATIC, MAN_MOUSE >>, << AM_MANUAL, MAN_COORDINATES >> }

BuildSpotsOf(mode, shape) ==
    IF mode = << AM_MANUAL, MAN_COORDINATES >>
    THEN BuildSpots(shape[1], shape[2])
    ELSE DefaultSpots

\* the centroids <<y, x>> of the objects of the image
CentroidSets == { c \in SUBSET BuildPixels : Cardinality(c) <= MaxCentroids }

BuildWorkspaces(s) ==
    IF s.auto_or_manual = AM_AUTOMATIC
    THEN { [centroids |-> c, events |-> << >>, status |-> WX_OK] : c \in CentroidSets }
    ELSE { NoWorkspace }

InitBuild ==
    /\ \E mode \in BuildModes, shape \in GridShapes, x \in Origins \X Orderings :
         \E sp \in BuildSpotsOf(mode, shape) :
            settings = BuildSetting(mode, shape, x, sp)
    /\ workspace \in BuildWorkspaces(settings)
    /\ workers = NoWorkers
    /\ saved = NoSaved
    /\ image_set_list = 1
    /\ dictionary = EmptyDictionary
    /\ grid = None
    /\ measurements = NoMeasurements
    /\ outcome = NotRun
    /\ first_success = None
    /\ last_success = None

\* run in automatic mode on the objects of the workspace
RunWorkspace ==
    /\ settings.auto_or_manual = AM_AUTOMATIC
    /\ Run(workspace)

NextBuild == RunCoordinates \/ RunWorkspace

SpecBuild == InitBuild /\ [][NextBuild]_vars

(***************************************************************************)
(* The images of one run, one after the other, with the workspace of the   *)
(* image at hand in the state: the pipeline loads the next image set and   *)
(* then calls run.  The settings are those of Spec; the objects lie on the *)
(* diagonal of the image.                                                  *)
(***************************************************************************)
ImageWorkspaces(s) ==
    IF s.auto_or_manual = AM_AUTOMATIC
    THEN { [centroids |-> c, events |-> << >>, status |-> WX_OK] : c \in SUBSET Points }
    ELSE IF s.manual_choice = MAN_MOUSE
    THEN { [centroids |-> {}, events |-> e, status |-> st] :
             e \in EventSeqs, st \in {WX_OK, WX_CANCEL} }
    ELSE { NoWorkspace }

InitImages ==
    /\ \E mode \in Modes, shape \in GridShapes, x \in Numberings :
         \E e \in {EO_EACH, EO_ONCE}, f \in FailChoices, sp \in SpotsOf(mode, shape) :
            settings = [BuildSetting(mode, shape, x, sp) EXCEPT
                           !.each_or_once = e, !.failed_grid_choice = f]
    /\ workspace \in ImageWorkspaces(settings)
    /\ workers = NoWorkers
    /\ saved = NoSaved
    /\ image_set_list = 1
    /\ dictionary = EmptyDictionary
    /\ grid = None
    /\ measurements = NoMeasurements
    /\ outcome = NotRun
    /\ first_success = None
    /\ last_success = None

\* the next image set of the run: its workspace holds no grid and no
\* measurement yet
LoadImage ==
    /\ outcome.ran
    /\ workspace' \in ImageWorkspaces(settings)
    /\ grid' = None
    /\ measurements' = NoMeasurements
    /\ outcome' = NotRun
    /\ UNCHANGED << settings, image_set_list, dictionary, first_success, last_success,
                    workers, saved >>

\* run in the mouse mode on the user's input of the workspace
RunDialog ==
    /\ settings.auto_or_manual = AM_MANUAL
    /\ settings.manual_choice = MAN_MOUSE
    /\ Run(workspace)

NextImages == LoadImage \/ RunWorkspace \/ RunCoordinates \/ RunDialog

SpecImages == InitImages /\ [][NextImages]_vars

(***************************************************************************)
(* Several images of one run processed at once: each worker calls run for  *)
(* an image in automatic mode, and the calls share the dictionary of the   *)
(* run.  A call is at "idle" (between two images), at "test" (the          *)
(* derivation of lines 336-341 returned, set_good_gridding is about to     *)
(* test the dictionary, lines 729-730) or at "write" (the test passed, the *)
(* assignment of line 731 is next).  Nothing in run or set_good_gridding   *)
(* keeps another call from running between the test and the assignment.    *)
(* first_success and last_success are the griddings of the first and of    *)
(* the latest call whose set_good_gridding returned after a derivation     *)
(* from the image.                                                         *)
(***************************************************************************)
NumWorkers == 2

IdleWorker == [pc |-> "idle", gridding |-> None, derived |-> FALSE, grid |-> None]

InitWorkers ==
    /\ \E x \in Origins \X Orderings, f \in FailChoices, sp \in DefaultSpots :
         settings = [BuildSetting(<< AM_AUTOMATIC, MAN_MOUSE >>,
                                  << MaxRows, MaxCols >>, x, sp)
                        EXCEPT !.failed_grid_choice = f]
    /\ workers = [w \in 1..NumWorkers |-> IdleWorker]
    /\ workspace = NoWorkspace
    /\ saved = NoSaved
    /\ image_set_list = 1
    /\ dictionary = EmptyDictionary
    /\ grid = None
    /\ measurements = NoMeasurements
    /\ outcome = NotRun
    /\ first_success = None
    /\ last_success = None

\* lines 336-337: the derivation of the worker's next image; when it raises
\* the call ends and the worker is idle again
WorkerDerive(w) ==
    /\ workers[w].pc = "idle"
    /\ \E centroids \in SUBSET Points :
         \E g \in {run_automatic(settings, dictionary, centroids)} :
            /\ ~IsException(g)
            /\ workers' = [workers EXCEPT ![w] =
                              [pc |-> "test", gridding |-> g,
                               derived |-> Cardinality(centroids) >= 2,
                               grid |-> None]]
    /\ UNCHANGED << settings, image_set_list, dictionary, grid, measurements,
                    outcome, first_success, last_success, workspace, saved >>

\* the rest of run after set_good_gridding returned, lines 341-354: the
\* gridding is registered in the worker's own workspace
WorkerCompletes(w) ==
    /\ workers' = [workers EXCEPT ![w] =
                      [pc |-> "idle", gridding |-> None, derived |-> FALSE,
                       grid |-> workers[w].gridding]]
    /\ first_success' = IF workers[w].derived /\ first_success = None
                        THEN workers[w].gridding ELSE first_success
    /\ last_success' = IF workers[w].derived
                       THEN workers[w].gridding ELSE last_success

\* lines 729-730: the test of set_good_gridding
WorkerTest(w) ==
    /\ workers[w].pc = "test"
    /\ IF settings.failed_grid_choice = FAIL_ANY_PREVIOUS
          \/ GOOD_GRIDDING \notin DOMAIN dictionary
       THEN /\ workers' = [workers EXCEPT ![w].pc = "write"]
            /\ UNCHANGED << first_success, last_success >>
       ELSE WorkerCompletes(w)
    /\ UNCHANGED << settings, image_set_list, dictionary, grid, measurements,
                    outcome, workspace, saved >>

\* line 731: the assignment of set_good_gridding
WorkerWrite(w) ==
    /\ workers[w].pc = "write"
    /\ dictionary' = [k \in DOMAIN dictionary \cup {GOOD_GRIDDING} |->
                         IF k = GOOD_GRIDDING THEN workers[w].gridding
                         ELSE dictionary[k]]
    /\ WorkerCompletes(w)
    /\ UNCHANGED << settings, image_set_list, grid, measurements,
                    outcome, workspace, saved >>

NextWorkers ==
    \E w \in 1..NumWorkers : WorkerDerive(w) \/ WorkerTest(w) \/ WorkerWrite(w)

SpecWorkers == InitWorkers /\ [][NextWorkers]_vars

(***************************************************************************)
(* Loading a saved pipeline: upgrade_settings, lines 733-800.  A setting   *)
(* value is a text.  A text is modelled by the fields that split(',')      *)
(* gives for it, and a field by what int(x.strip()) makes of it: a field   *)
(* that spells an integer carries the integer, any other field carries its *)
(* characters.                                                             *)
(***************************************************************************)
YES == "Yes"
NO == "No"
DO_NOT_USE == "Do not use"

Number(n) == [digits |-> TRUE, n |-> n, word |-> ""]
Word(w) == [digits |-> FALSE, n |-> 0, word |-> w]

\* a text without a comma that spells no integer, str(n) (also the literal
\* "1") and "%d,%d" % (a, b)
text(w) == << Word(w) >>
str(n) == << Number(n) >>
format_pair(a, b) == << Number(a), Number(b) >>

\* a, b = [int(x.strip()) for x in t.split(',')] inside try / except: the
\* assignment raises unless there are two fields and both spell integers
parses_as_pair(t) == Len(t) = 2 /\ t[1].digits /\ t[2].digits

\* str.lower() of the texts of the left_or_right setting
lower(w) == IF w = "Left" THEN "left" ELSE IF w = "Right" THEN "right" ELSE w

\* A variant of upgrade_settings that places the second spot cols and rows
\* spacings away from the first
upgrade_settings_one_too_far(setting_values, variable_revision_number, module_name, from_matlab) ==
    IF from_matlab /\ variable_revision_number = 3
    THEN IF Len(setting_values) # 16
         THEN ValueError
         ELSE LET grid_name == setting_values[1]
                  rows_cols == setting_values[2]
                  left_or_right == setting_values[3]
                  top_or_bottom == setting_values[4]
                  rows_or_columns == setting_values[5]
                  each_or_once == setting_values[6]
                  auto_or_manual == setting_values[7]
                  object_name == setting_values[8]
                  control_spot_mode == setting_values[9]
                  image_name == setting_values[10]
                  horz_vert_offset == setting_values[11]
                  horz_vert_spacing == setting_values[13]
                  control_spot == setting_values[14]
                  rgb_name == setting_values[15]
                  failed_grid_choice == setting_values[16]
                  rows == IF parses_as_pair(rows_cols) THEN rows_cols[1].n ELSE 8
                  cols == IF parses_as_pair(rows_cols) THEN rows_cols[2].n ELSE 12
                  x_spacing == IF parses_as_pair(horz_vert_spacing)
                               THEN horz_vert_spacing[1].n ELSE 10
                  y_spacing == IF parses_as_pair(horz_vert_spacing)
                               THEN horz_vert_spacing[2].n ELSE 10
                  located == parses_as_pair(horz_vert_offset) /\ parses_as_pair(control_spot)
                  first_x == IF located THEN control_spot[1].n + horz_vert_offset[1].n ELSE 0
                  first_y == IF located THEN control_spot[2].n + horz_vert_offset[2].n ELSE 0
                  second_x == first_x + cols * x_spacing
                  second_y == first_y + rows * y_spacing
                  origin == text(top_or_bottom[1].word \o " " \o lower(left_or_right[1].word))
              IN  << << grid_name, str(rows), str(cols), origin, rows_or_columns,
                        each_or_once, auto_or_manual, object_name,
                        control_spot_mode, image_name,
                        format_pair(first_x, first_y), str(1), str(1),
                        format_pair(second_x, second_y), str(rows), str(cols),
                        IF rgb_name = text(DO_NOT_USE) THEN text(NO) ELSE text(YES),
                        rgb_name, image_name, failed_grid_choice >>,
                     1, FALSE >>
    ELSE << setting_values, variable_revision_number, from_matlab >>

upgrade_settings(setting_values, variable_revision_number, module_name, from_matlab) ==
    IF from_matlab /\ variable_revision_number = 3
    THEN IF Len(setting_values) # 16
         THEN ValueError        \* the unpacking of lines 755-758
         ELSE LET grid_name == setting_values[1]
                  rows_cols == setting_values[2]
                  left_or_right == setting_values[3]
                  top_or_bottom == setting_values[4]
                  rows_or_columns == setting_values[5]
                  each_or_once == setting_values[6]
                  auto_or_manual == setting_values[7]
                  object_name == setting_values[8]
                  control_spot_mode == setting_values[9]
                  image_name == setting_values[10]
                  horz_vert_offset == setting_values[11]
                  horz_vert_spacing == setting_values[13]
                  control_spot == setting_values[14]
                  rgb_name == setting_values[15]
                  failed_grid_choice == setting_values[16]
                  \* lines 760-763
                  rows == IF parses_as_pair(rows_cols) THEN rows_cols[1].n ELSE 8
                  cols == IF parses_as_pair(rows_cols) THEN rows_cols[2].n ELSE 12
                  \* lines 764-768
                  x_spacing == IF parses_as_pair(horz_vert_spacing)
                               THEN horz_vert_spacing[1].n ELSE 10
                  y_spacing == IF parses_as_pair(horz_vert_spacing)
                               THEN horz_vert_spacing[2].n ELSE 10
                  \* lines 769-775: both texts must parse, else (0, 0)
                  located == parses_as_pair(horz_vert_offset) /\ parses_as_pair(control_spot)
                  first_x == IF located THEN control_spot[1].n + horz_vert_offset[1].n ELSE 0
                  first_y == IF located THEN control_spot[2].n + horz_vert_offset[2].n ELSE 0
                  second_x == first_x + (cols - 1) * x_spacing
                  second_y == first_y + (rows - 1) * y_spacing
                  origin == text(top_or_bottom[1].word \o " " \o lower(left_or_right[1].word))
              IN  << << grid_name, str(rows), str(cols), origin, rows_or_columns,
                        each_or_once, auto_or_manual, object_name,
                        control_spot_mode, image_name,
                        format_pair(first_x, first_y), str(1), str(1),
                        format_pair(second_x, second_y), str(rows), str(cols),
                        IF rgb_name = text(DO_NOT_USE) THEN text(NO) ELSE text(YES),
                        rgb_name, image_name, failed_grid_choice >>,
                     1, FALSE >>
    ELSE << setting_values, variable_revision_number, from_matlab >>

\* the names of the settings in the order of settings(), lines 276-292
settings_order ==
    << "grid_image", "grid_rows", "grid_columns", "origin", "ordering",
       "each_or_once", "auto_or_manual", "object_name", "manual_choice",
       "manual_image", "first_spot_coordinates", "first_spot_row",
       "first_spot_col", "second_spot_coordinates", "second_spot_row",
       "second_spot_col", "wants_image", "save_image_name",
       "display_image_name", "failed_grid_choice" >>

\* texts of two integers, and texts that the parsing of lines 760-775 rejects
PairTexts(as, bs) == { format_pair(a, b) : a \in as, b \in bs }
BadPairTexts == { text("8 x 12"), str(MaxRows), << Number(1), Word("") >>,
                  << Number(1), Number(2), Number(3) >> }

\* the 16 setting values of a DefineGrid module saved by Matlab at revision 3
MatlabValues ==
    { << text("Grid"), rows_cols, text(lr), text(tb), text(NUM_BY_ROWS),
         text(EO_EACH), text(AM_MANUAL), text("Spots"), text(MAN_COORDINATES),
         text("Plate"), offset, text("Pixels"), spacing, spot, rgb,
         text(FAIL_NO) >> :
        rows_cols \in PairTexts(1..MaxRows, {1, MaxCols}) \cup BadPairTexts,
        lr \in {"Left", "Right"}, tb \in {"Top", "Bottom"},
        offset \in PairTexts({0, 1}, {-1}) \cup { text("") },
        spacing \in PairTexts({1, MaxCoord}, {MaxCoord + 1}) \cup { text("") },
        spot \in PairTexts({0, MaxCoord}, {MaxCoord}) \cup { text("none") },
        rgb \in { text(DO_NOT_USE), text("GridImage") } }

\* the 20 setting values of a module saved by this version
CurrentValues ==
    { << text("Grid"), str(rows), str(MaxCols), text(o), text(NUM_BY_ROWS),
         text(EO_EACH), text(AM_MANUAL), text("Spots"), text(MAN_COORDINATES),
         text("Plate"), format_pair(0, 0), str(1), str(1),
         format_pair(MaxCoord, MaxCoord), str(rows), str(MaxCols),
         text(NO), text("GridImage"), text("Plate"), text(FAIL_NO) >> :
        rows \in 1..MaxRows, o \in Origins }

\* the pipeline file gives the module its setting values, the revision and
\* whether Matlab saved it; a Matlab module of revision 3 has 16 values
InitUpgrade ==
    /\ \E values \in MatlabValues \cup CurrentValues, revision \in {1, 2, 3},
          from_matlab \in BOOLEAN :
         /\ (from_matlab /\ revision = 3) => values \in MatlabValues
         /\ saved = [loaded |-> TRUE, upgraded |-> FALSE,
                     setting_values |-> values,
                     variable_revision_number |-> revision,
                     from_matlab |-> from_matlab,
                     result |-> << >>]
    /\ \E sp \in DefaultSpots :
         settings = BuildSetting(<< AM_AUTOMATIC, MAN_MOUSE >>, << MaxRows, MaxCols >>,
                                 << NUM_TOP_LEFT, NUM_BY_ROWS >>, sp)
    /\ workspace = NoWorkspace
    /\ workers = NoWorkers
    /\ image_set_list = 1
    /\ dictionary = EmptyDictionary
    /\ grid = None
    /\ measurements = NoMeasurements
    /\ outcome = NotRun
    /\ first_success = None
    /\ last_success = None

\* the loader calls upgrade_settings once with what the file holds
UpgradeSettings ==
    /\ saved.loaded
    /\ ~saved.upgraded
    /\ saved' = [saved EXCEPT !.upgraded = TRUE,
                              !.result = upgrade_settings(saved.setting_values,
                                             saved.variable_revision_number,
                                             "DefineGrid", saved.from_matlab)]
    /\ UNCHANGED << settings, image_set_list, dictionary, grid, measurements,
                    outcome, first_success, last_success, workspace, workers >>

NextUpgrade == UpgradeSettings

SpecUpgrade == InitUpgrade /\ [][NextUpgrade]_vars

(***************************************************************************)
(* The dialog of run_mouse alone: a module in the manual mouse mode and    *)
(* one image; the user releases the mouse button on the image, at a whole  *)
(* pixel or between two pixels, or outside of the axes, or presses         *)
(* Redisplay, up to MaxDialogEvents times, and then closes the dialog with *)
(* OK or Cancel.                                                           *)
(***************************************************************************)
MaxDialogEvents == 3

DialogEvents ==
    { [type |-> "button_release", inaxes |-> TRUE,
       xdata |-> Float(2 * MaxCoord + 1, 2), ydata |-> Float(1, 1)],
      [type |-> "button_release", inaxes |-> TRUE,
       xdata |-> Float(1, 1), ydata |-> Float(3 * MaxCoord + 2, 3)],
      [type |-> "button_release", inaxes |-> FALSE,
       xdata |-> Float(0, 1), ydata |-> Float(0, 1)],
      [type |-> "redisplay", inaxes |-> FALSE,
       xdata |-> Float(0, 1), ydata |-> Float(0, 1)] }

DialogEventSeqs == UNION { [1..n -> DialogEvents] : n \in 0..MaxDialogEvents }

InitDialog ==
    /\ \E shape \in GridShapes, x \in Origins \X Orderings, sp \in DefaultSpots :
         settings = BuildSetting(<< AM_MANUAL, MAN_MOUSE >>, shape, x, sp)
    /\ \E e \in DialogEventSeqs, st \in {WX_OK, WX_CANCEL} :
         workspace = [centroids |-> {}, events |-> e, status |-> st]
    /\ workers = NoWorkers
    /\ saved = NoSaved
    /\ image_set_list = 1
    /\ dictionary = EmptyDictionary
    /\ grid = None
    /\ measurements = NoMeasurements
    /\ outcome = NotRun
    /\ first_success = None
    /\ last_success = None

NextDialog == RunDialog

SpecDialog == InitDialog /\ [][NextDialog]_vars

(***************************************************************************)
(* Vocabulary of the properties.                                           *)
(***************************************************************************)
\* the gridding the run's dictionary holds (None when it holds none)
Cached == get_good_gridding(dictionary)

\* this step is a call of run for an image of the current run
RunStep == outcome'.ran /\ image_set_list' = image_set_list

\* the latest image had fewer than 2 centroids in automatic mode
TooFew == outcome.ran /\ outcome.too_few

\* the latest call of run raised
Raised == outcome.ran /\ outcome.raised # None

(***************************************************************************)
(* C1: with the choice "The First", an image with fewer than 2 centroids   *)
(* that comes after a successful image of the run is given the grid of the *)
(* first successful image of the run, however many images succeeded since. *)
(***************************************************************************)
C1_FirstChoiceGivesFirstGrid ==
    (settings.failed_grid_choice = FAIL_FIRST /\ TooFew /\ first_success # None)
        => (outcome.raised = None /\ grid = first_success)

C1_Witness ==
    /\ settings.failed_grid_choice = FAIL_FIRST
    /\ TooFew
    /\ first_success # None
    /\ last_success # first_success
    /\ grid = first_success

(***************************************************************************)
(* C2: with the choice "Any Previous", an image with fewer than 2          *)
(* centroids that comes after a successful image of the run is given the   *)
(* grid of the most recent successful image.                               *)
(***************************************************************************)
C2_AnyPreviousGivesLatestGrid ==
    (settings.failed_grid_choice = FAIL_ANY_PREVIOUS /\ TooFew /\ last_success # None)
        => (outcome.raised = None /\ grid = last_success)

C2_Witness ==
    /\ settings.failed_grid_choice = FAIL_ANY_PREVIOUS
    /\ TooFew
    /\ last_success # None
    /\ last_success # first_success
    /\ grid = last_success

C4_NoPreviousGridRaises ==
    [][ (RunStep /\ outcome'.too_few /\ Cached = None)
          => /\ outcome'.raised.type = "RuntimeError"
             /\ grid' = None
             /\ dictionary' = EmptyDictionary
             /\ settings.failed_grid_choice \in {FAIL_ANY_PREVIOUS, FAIL_FIRST}
                  => outcome'.raised = RuntimeError(TOO_FEW_NO_PREVIOUS) ]_vars

C4_Witness ==
    /\ settings.failed_grid_choice \in {FAIL_ANY_PREVIOUS, FAIL_FIRST}
    /\ TooFew
    /\ outcome.raised = RuntimeError(TOO_FEW_NO_PREVIOUS)
    /\ dictionary = EmptyDictionary

(***************************************************************************)
(* C5: the dictionary of a run holds no gridding until the first           *)
(* successful derivation of the run, holds one from then on whatever       *)
(* images follow in the run, and the dictionary of a new run holds none.   *)
(***************************************************************************)
C5_CacheNeverEmptiedInRun ==
    /\ [](first_success = None => Cached = None)
    /\ [][ /\ (image_set_list' = image_set_list /\ Cached # None)
                => get_good_gridding(dictionary') # None
           /\ (RunStep /\ outcome'.raised = None /\ ~outcome'.too_few)
                => get_good_gridding(dictionary') # None
           /\ image_set_list' # image_set_list
                => dictionary' = EmptyDictionary ]_vars

C5_Witness ==
    /\ image_set_list > 1
    /\ Cached # None
    /\ Raised
    /\ last_success # first_success

(***************************************************************************)
(* C6 as stated: with the choice "No" the dictionary never holds a         *)
(* gridding.                                                               *)
(***************************************************************************)
C6_NoChoiceNeverStores ==
    settings.failed_grid_choice = FAIL_NO => dictionary = EmptyDictionary

(***************************************************************************)
(* C6 as amended: with the choice "No" the dictionary holds the grid of    *)
(* the first successful derivation of the run, and holds none only while   *)
(* no derivation of the run has succeeded.                                 *)
(***************************************************************************)
C6_NoChoiceStoresFirst ==
    settings.failed_grid_choice = FAIL_NO => Cached = first_success

C6_Witness ==
    /\ settings.failed_grid_choice = FAIL_NO
    /\ first_success # None
    /\ last_success # first_success
    /\ Cached = first_success

(***************************************************************************)
(* C7: when the grid is defined "Once", every image after the first        *)
(* successful derivation of the run is given the grid of that first        *)
(* derivation.                                                             *)
(***************************************************************************)
C7_OnceReusesFirstGrid ==
    (settings.each_or_once = EO_ONCE /\ outcome.ran /\ outcome.raised = None
        /\ first_success # None)
        => grid = first_success

(***************************************************************************)
(* C8: when the grid is defined "Once", the gridding the dictionary holds  *)
(* after the first success never changes for the rest of the run, with     *)
(* every choice of failed_grid_choice.                                     *)
(***************************************************************************)
C8_OnceCacheIsPermanent ==
    [][ (settings.each_or_once = EO_ONCE /\ image_set_list' = image_set_list
            /\ Cached # None)
          => dictionary' = dictionary ]_vars

(***************************************************************************)
(* C9: when an image with fewer than 2 centroids is given the gridding of  *)
(* the dictionary, the grid registered is that gridding, equal in every    *)
(* field, and the dictionary is the same after the call as before.         *)
(***************************************************************************)
C9_SubstitutionLeavesCacheUnchanged ==
    [][ (RunStep /\ outcome'.too_few /\ outcome'.raised = None
            /\ settings.failed_grid_choice \in {FAIL_ANY_PREVIOUS, FAIL_FIRST}
            /\ Cached # None)
          => (grid' = Cached /\ dictionary' = dictionary) ]_vars

C9_Witness ==
    /\ settings.failed_grid_choice = FAIL_ANY_PREVIOUS
    /\ TooFew
    /\ outcome.raised = None
    /\ grid = Cached
    /\ Cached = last_success
    /\ last_success # first_success

Built == outcome.ran /\ grid # None

\* the settings are those of the coordinates mode
Coordinates ==
    settings.auto_or_manual = AM_MANUAL /\ settings.manual_choice = MAN_COORDINATES

\* the settings are those of the automatic mode
Automatic == settings.auto_or_manual = AM_AUTOMATIC

\* the two reference points the user entered: pixel position and the row
\* and column of the cell, as numbered from the origin
P1 == [x |-> settings.first_spot_coordinates.x, y |-> settings.first_spot_coordinates.y,
       row |-> settings.first_spot_row, col |-> settings.first_spot_col]
P2 == [x |-> settings.second_spot_coordinates.x, y |-> settings.second_spot_coordinates.y,
       row |-> settings.second_spot_row, col |-> settings.second_spot_col]

\* the canonical (top-left based, 0-based) row and column of a cell
CanonicalRow(row) ==
    IF settings.origin \in {NUM_BOTTOM_LEFT, NUM_BOTTOM_RIGHT}
    THEN settings.grid_rows - row
    ELSE row - 1

CanonicalCol(col) ==
    IF settings.origin \in {NUM_TOP_RIGHT, NUM_BOTTOM_RIGHT}
    THEN settings.grid_columns - col
    ELSE col - 1

(***************************************************************************)
(* C11: for every origin and all integers row and col,                     *)
(* canonical_row_and_column returns the row  rows - row  when the origin   *)
(* is at the bottom and  row - 1  otherwise, and the column  columns - col *)
(* when the origin is at the right and  col - 1  otherwise (also for a row  *)
(* or a column outside of the grid).                                       *)
(***************************************************************************)
C11_CanonicalRowAndColumn ==
    outcome.ran
        => \A row \in 0..(MaxRows + 1), col \in 0..(MaxCols + 1) :
              canonical_row_and_column(settings, row, col)
                  = << CanonicalRow(row), CanonicalCol(col) >>

C11_Witness ==
    /\ Coordinates
    /\ Built
    /\ settings.origin = NUM_BOTTOM_RIGHT
    /\ canonical_row_and_column(settings, P1.row, P1.col)
          = << settings.grid_rows - P1.row, settings.grid_columns - P1.col >>
    /\ canonical_row_and_column(settings, P1.row, P1.col) # << P1.row - 1, P1.col - 1 >>

\* the two reference points of the coordinates mode lie in different
\* canonical rows and in different canonical columns
DifferentRowsAndColumns ==
    /\ CanonicalRow(P1.row) # CanonicalRow(P2.row)
    /\ CanonicalCol(P1.col) # CanonicalCol(P2.col)

\* the slopes of the line through the two reference points
SpacingX == Float(P1.x - P2.x, CanonicalCol(P1.col) - CanonicalCol(P2.col))
SpacingY == Float(P1.y - P2.y, CanonicalRow(P1.row) - CanonicalRow(P2.row))

\* the line through the two reference points at canonical column / row 0
ExactOriginX == Float(P1.x * SpacingX[2] - CanonicalCol(P1.col) * SpacingX[1], SpacingX[2])
ExactOriginY == Float(P1.y * SpacingY[2] - CanonicalRow(P1.row) * SpacingY[1], SpacingY[2])

\* the integer o is the float e with its fraction cut off (toward zero)
Truncates(o, e) ==
    /\ Abs(o) * e[2] <= Abs(e[1])
    /\ Abs(e[1]) < (Abs(o) + 1) * e[2]
    /\ (o > 0 => e[1] > 0)
    /\ (o < 0 => e[1] < 0)

(***************************************************************************)
(* C12 as stated: two reference points in different canonical rows and     *)
(* columns give the spacings (x1 - x2) / (c1 - c2) and (y1 - y2) /         *)
(* (r1 - r2) and the origin x1 - c1 * xSpacing, y1 - r1 * ySpacing as      *)
(* exact values, also when they are not whole numbers.                     *)
(***************************************************************************)
C12_OriginIsExact ==
    (Coordinates /\ outcome.ran /\ DifferentRowsAndColumns)
        => /\ Built
           /\ grid.x_spacing = SpacingX
           /\ grid.y_spacing = SpacingY
           /\ Float(grid.x_location_of_lowest_x_spot, 1) = ExactOriginX
           /\ Float(grid.y_location_of_lowest_y_spot, 1) = ExactOriginY

(***************************************************************************)
(* C12, amended: the spacings are the exact quotients, and the origin of   *)
(* the grid is the whole number that remains of x1 - c1 * xSpacing and of  *)
(* y1 - r1 * ySpacing when the fraction is cut off (toward zero).          *)
(***************************************************************************)
C12_OriginIsTruncated ==
    (Coordinates /\ outcome.ran /\ DifferentRowsAndColumns)
        => /\ Built
           /\ grid.x_spacing = SpacingX
           /\ grid.y_spacing = SpacingY
           /\ Truncates(grid.x_location_of_lowest_x_spot, ExactOriginX)
           /\ Truncates(grid.y_location_of_lowest_y_spot, ExactOriginY)

C12_Witness ==
    /\ Coordinates
    /\ Built
    /\ DifferentRowsAndColumns
    /\ ExactOriginX[2] # 1
    /\ ExactOriginX[1] < 0
    /\ grid.x_location_of_lowest_x_spot = 0

\* the position on the line of the grid at canonical column c / row r
LineX(c) ==
    Float(grid.x_location_of_lowest_x_spot * grid.x_spacing[2] + c * grid.x_spacing[1],
          grid.x_spacing[2])
LineY(r) ==
    Float(grid.y_location_of_lowest_y_spot * grid.y_spacing[2] + r * grid.y_spacing[1],
          grid.y_spacing[2])

(***************************************************************************)
(* C13 as stated: a built grid has `columns` x-locations and `rows`        *)
(* y-locations, and xLocations[c] = originX + c * xSpacing,                *)
(* yLocations[r] = originY + r * ySpacing.                                 *)
(***************************************************************************)
C13_LocationsAreExact ==
    Built
        => /\ Len(grid.x_locations) = settings.grid_columns
           /\ Len(grid.y_locations) = settings.grid_rows
           /\ \A c \in 0..(settings.grid_columns - 1) :
                  Float(grid.x_locations[c + 1], 1) = LineX(c)
           /\ \A r \in 0..(settings.grid_rows - 1) :
                  Float(grid.y_locations[r + 1], 1) = LineY(r)

(***************************************************************************)
(* C13, amended: a built grid has `columns` x-locations and `rows`         *)
(* y-locations, and xLocations[c] is originX + c * xSpacing with its       *)
(* fraction cut off (toward zero), yLocations[r] likewise.                 *)
(***************************************************************************)
C13_LocationsAreTruncated ==
    Built
        => /\ Len(grid.x_locations) = settings.grid_columns
           /\ Len(grid.y_locations) = settings.grid_rows
           /\ \A c \in 0..(settings.grid_columns - 1) :
                  Truncates(grid.x_locations[c + 1], LineX(c))
           /\ \A r \in 0..(settings.grid_rows - 1) :
                  Truncates(grid.y_locations[r + 1], LineY(r))

C13_Witness ==
    /\ Built
    /\ settings.grid_columns = MaxCols
    /\ LineX(1)[2] # 1
    /\ grid.x_locations[2] = grid.x_locations[1]
    /\ grid.x_locations[3] # grid.x_locations[2]

\* the reference point p lies inside the grid
InGrid(p) == p.row \in 1..settings.grid_rows /\ p.col \in 1..settings.grid_columns

\* the place the built grid gives to the cell of the reference point p
LocationX(p) == grid.x_locations[CanonicalCol(p.col) + 1]
LocationY(p) == grid.y_locations[CanonicalRow(p.row) + 1]

(***************************************************************************)
(* C14 as stated: for two reference points inside the grid, in different   *)
(* rows and columns, the built grid passes exactly through both:           *)
(* xLocations[canonicalCol(p)] = p.x and yLocations[canonicalRow(p)] = p.y *)
(* for both points, also when the spacing is not a whole number.           *)
(***************************************************************************)
C14_ExactFit ==
    (Coordinates /\ outcome.ran /\ InGrid(P1) /\ InGrid(P2) /\ DifferentRowsAndColumns)
        => /\ Built
           /\ \A p \in {P1, P2} : LocationX(p) = p.x /\ LocationY(p) = p.y

(***************************************************************************)
(* C14, amended: the built grid passes through both reference points up to *)
(* one pixel: xLocations[canonicalCol(p)] differs from p.x by at most 1,   *)
(* and equals p.x when x1 - c1 * xSpacing is a whole number (so whenever   *)
(* the spacing is a whole number); likewise for y.                         *)
(***************************************************************************)
C14_FitWithinOnePixel ==
    (Coordinates /\ outcome.ran /\ InGrid(P1) /\ InGrid(P2) /\ DifferentRowsAndColumns)
        => /\ Built
           /\ \A p \in {P1, P2} :
                  /\ Abs(LocationX(p) - p.x) <= 1
                  /\ Abs(LocationY(p) - p.y) <= 1
                  /\ (ExactOriginX[2] = 1 => LocationX(p) = p.x)
                  /\ (ExactOriginY[2] = 1 => LocationY(p) = p.y)
                  /\ (SpacingX[2] = 1 => ExactOriginX[2] = 1)
                  /\ (SpacingY[2] = 1 => ExactOriginY[2] = 1)

C14_Witness ==
    /\ Coordinates
    /\ Built
    /\ InGrid(P1)
    /\ InGrid(P2)
    /\ DifferentRowsAndColumns
    /\ SpacingX[2] # 1
    /\ LocationX(P1) = P1.x - 1
    /\ LocationX(P2) = P2.x - 1

(***************************************************************************)
(* C15: for each origin and each order, the spot table of a built grid has *)
(* `rows` rows of `columns` entries and holds each of the numbers          *)
(* 1..rows * columns exactly once.                                         *)
(***************************************************************************)
C15_SpotTableIsBijection ==
    Built
        => /\ Len(grid.spot_table) = settings.grid_rows
           /\ \A r \in 1..settings.grid_rows :
                  Len(grid.spot_table[r]) = settings.grid_columns
           /\ \A n \in 1..(settings.grid_rows * settings.grid_columns) :
                  Cardinality({ rc \in (1..settings.grid_rows) \X (1..settings.grid_columns) :
                                  grid.spot_table[rc[1]][rc[2]] = n }) = 1

C15_Witness ==
    /\ Built
    /\ settings.grid_rows = MaxRows
    /\ settings.grid_columns = MaxCols
    /\ settings.origin = NUM_BOTTOM_RIGHT
    /\ settings.ordering = NUM_BY_ROWS
    /\ grid.spot_table[MaxRows][MaxCols] = 1
    /\ grid.spot_table[1][1] = MaxRows * MaxCols

(***************************************************************************)
(* C16 as stated: numbered from the top left, the order "Rows" gives the   *)
(* row-major table spotTable[r][c] = r * columns + c + 1 and the order     *)
(* "Columns" the column-major table spotTable[r][c] = c * rows + r + 1.    *)
(***************************************************************************)
C16_RowsIsRowMajor ==
    (Built /\ settings.origin = NUM_TOP_LEFT)
        => \A r \in 0..(settings.grid_rows - 1), c \in 0..(settings.grid_columns - 1) :
              grid.spot_table[r + 1][c + 1] =
                  IF settings.ordering = NUM_BY_ROWS
                  THEN r * settings.grid_columns + c + 1
                  ELSE c * settings.grid_rows + r + 1

(***************************************************************************)
(* C16, amended: numbered from the top left, it is the order "Columns"     *)
(* that gives the row-major table, whose row r is the run of the numbers   *)
(* r * columns + 1 .. (r + 1) * columns, and the order "Rows" that gives   *)
(* the column-major table, whose column c is the run of the numbers        *)
(* c * rows + 1 .. (c + 1) * rows from top to bottom.                      *)
(***************************************************************************)
C16_ColumnsIsRowMajor ==
    (Built /\ settings.origin = NUM_TOP_LEFT)
        => IF settings.ordering = NUM_BY_COLUMNS
           THEN \A r \in 0..(settings.grid_rows - 1) :
                   grid.spot_table[r + 1] =
                       [c \in 1..settings.grid_columns |-> r * settings.grid_columns + c]
           ELSE \A c \in 0..(settings.grid_columns - 1) :
                   [r \in 1..settings.grid_rows |-> grid.spot_table[r][c + 1]] =
                       [r \in 1..settings.grid_rows |-> c * settings.grid_rows + r]

C16_Witness ==
    /\ Built
    /\ settings.origin = NUM_TOP_LEFT
    /\ settings.ordering = NUM_BY_ROWS
    /\ settings.grid_rows = MaxRows
    /\ settings.grid_columns = MaxCols
    /\ grid.spot_table[1][MaxCols] = (MaxCols - 1) * MaxRows + 1
    /\ grid.spot_table[1][MaxCols] # MaxCols

(***************************************************************************)
(* C17: numbered from the top left, the order "Rows" gives A01 = 1,        *)
(* B01 = 2, ... the last well of the first column = rows and A02 =         *)
(* rows + 1 (spot_table[r][c] = c * rows + r + 1), and the order "Columns" *)
(* gives A02 = 2, the last well of row A = columns and B01 = columns + 1   *)
(* (spot_table[r][c] = r * columns + c + 1).  The well in row r and column *)
(* c (from 0) is spot_table[r + 1][c + 1].                                 *)
(***************************************************************************)
C17_OrderAsDocumented ==
    (Built /\ settings.origin = NUM_TOP_LEFT)
        => LET rows == settings.grid_rows
               columns == settings.grid_columns
               well(r, c) == grid.spot_table[r + 1][c + 1]
           IN  /\ settings.ordering = NUM_BY_ROWS
                    => /\ well(0, 0) = 1
                       /\ (rows >= 2 => well(1, 0) = 2)
                       /\ well(rows - 1, 0) = rows
                       /\ (columns >= 2 => well(0, 1) = rows + 1)
                       /\ \A r \in 0..(rows - 1), c \in 0..(columns - 1) :
                              well(r, c) = c * rows + r + 1
               /\ settings.ordering = NUM_BY_COLUMNS
                    => /\ (columns >= 2 => well(0, 1) = 2)
                       /\ well(0, columns - 1) = columns
                       /\ (rows >= 2 => well(1, 0) = columns + 1)
                       /\ \A r \in 0..(rows - 1), c \in 0..(columns - 1) :
                              well(r, c) = r * columns + c + 1

C17_Witness ==
    /\ Built
    /\ settings.origin = NUM_TOP_LEFT
    /\ settings.ordering = NUM_BY_COLUMNS
    /\ settings.grid_rows = MaxRows
    /\ settings.grid_columns = MaxCols
    /\ grid.spot_table[1][2] = 2
    /\ grid.spot_table[2][1] = MaxCols + 1

\* the origin o is at the bottom / at the right of the grid
AtBottom(o) == o \in {NUM_BOTTOM_LEFT, NUM_BOTTOM_RIGHT}
AtRight(o) == o \in {NUM_TOP_RIGHT, NUM_BOTTOM_RIGHT}

\* the table t with its row axis / its column axis reversed
ReverseRows(t) == [r \in 1..Len(t) |-> t[Len(t) + 1 - r]]
ReverseColumns(t) == [r \in 1..Len(t) |-> [c \in 1..Len(t[r]) |-> t[r][Len(t[r]) + 1 - c]]]

\* what run registers for the same image when only the origin is o
GridFrom(o) == run([settings EXCEPT !.origin = o], EmptyDictionary, workspace).grid

(***************************************************************************)
(* C18: with the same two reference points (pixels and entered rows and    *)
(* columns), rows, columns and order, another origin gives the spot table  *)
(* with the row axis reversed when top / bottom changes and the column     *)
(* axis reversed when left / right changes, and spacings of the same       *)
(* magnitude.                                                              *)
(***************************************************************************)
C18_OriginReversesAxes ==
    (Coordinates /\ Built)
        => \A o \in Origins :
              \E g \in {GridFrom(o)} :
                 LET rows_reversed == IF AtBottom(o) # AtBottom(settings.origin)
                                      THEN ReverseRows(grid.spot_table)
                                      ELSE grid.spot_table
                     expected == IF AtRight(o) # AtRight(settings.origin)
                                 THEN ReverseColumns(rows_reversed)
                                 ELSE rows_reversed
                 IN  /\ g # None
                     /\ g.spot_table = expected
                     /\ Abs(g.x_spacing[1]) = Abs(grid.x_spacing[1])
                     /\ g.x_spacing[2] = grid.x_spacing[2]
                     /\ Abs(g.y_spacing[1]) = Abs(grid.y_spacing[1])
                     /\ g.y_spacing[2] = grid.y_spacing[2]

C18_Witness ==
    /\ Coordinates
    /\ Built
    /\ settings.origin = NUM_TOP_LEFT
    /\ settings.grid_rows = MaxRows
    /\ settings.grid_columns = MaxCols
    /\ GridFrom(NUM_BOTTOM_RIGHT).spot_table[1][1] = grid.spot_table[MaxRows][MaxCols]
    /\ GridFrom(NUM_BOTTOM_RIGHT).spot_table # grid.spot_table
    /\ GridFrom(NUM_BOTTOM_RIGHT).x_spacing[1] = -grid.x_spacing[1]
    /\ grid.x_spacing[1] # 0

(***************************************************************************)
(* C19: build_grid_info called with two reference points in the same       *)
(* canonical column or in the same canonical row raises the division by    *)
(* zero, whatever the origin and the pixels: run raises it, registers no   *)
(* grid, stores none in the dictionary and adds no measurement.  The       *)
(* automatic mode calls it with the rows 1 and `rows` and the columns 1    *)
(* and `columns`.                                                          *)
(***************************************************************************)
C19_EqualRowsOrColumnsRaise ==
    /\ (Coordinates /\ outcome.ran /\ ~DifferentRowsAndColumns)
          => /\ outcome.raised = ZeroDivisionError
             /\ grid = None
             /\ Cached = None
             /\ measurements = NoMeasurements
    /\ (Automatic /\ outcome.ran /\ Cardinality(workspace.centroids) >= 2
           /\ (settings.grid_rows = 1 \/ settings.grid_columns = 1))
          => /\ outcome.raised = ZeroDivisionError
             /\ grid = None
             /\ Cached = None
             /\ measurements = NoMeasurements

C19_Witness ==
    /\ Coordinates
    /\ outcome.ran
    /\ CanonicalCol(P1.col) = CanonicalCol(P2.col)
    /\ CanonicalRow(P1.row) # CanonicalRow(P2.row)
    /\ P1.x # P2.x
    /\ settings.origin = NUM_BOTTOM_LEFT
    /\ outcome.raised = ZeroDivisionError
    /\ grid = None

(***************************************************************************)
(* C20 as stated: every grid that is built, in the manual or in the        *)
(* automatic mode, and so every grid that is registered or stored in the   *)
(* dictionary, has an x spacing and a y spacing other than 0, also when    *)
(* the two reference points or all the centroids share their x or their y  *)
(* pixel coordinate.                                                       *)
(***************************************************************************)
C20_SpacingsNonZero ==
    /\ Built => (grid.x_spacing[1] # 0 /\ grid.y_spacing[1] # 0)
    /\ Cached # None => (Cached.x_spacing[1] # 0 /\ Cached.y_spacing[1] # 0)

\* the extreme pixel coordinates of the centroids <<y, x>> of the image
MinX == CHOOSE m \in {p[2] : p \in workspace.centroids} : \A p \in workspace.centroids : m <= p[2]
MaxX == CHOOSE m \in {p[2] : p \in workspace.centroids} : \A p \in workspace.centroids : m >= p[2]
MinY == CHOOSE m \in {p[1] : p \in workspace.centroids} : \A p \in workspace.centroids : m <= p[1]
MaxY == CHOOSE m \in {p[1] : p \in workspace.centroids} : \A p \in workspace.centroids : m >= p[1]

\* the row / column a user enters for the cell of the canonical row r /
\* column c
EnteredRow(r) == CHOOSE row \in 1..settings.grid_rows : CanonicalRow(row) = r
EnteredCol(c) == CHOOSE col \in 1..settings.grid_columns : CanonicalCol(col) = c

\* the settings of the coordinates mode whose reference points are the
\* extremes of the centroids at the first and at the last canonical cell
ExtremesAsSpots ==
    [settings EXCEPT !.auto_or_manual = AM_MANUAL,
                     !.manual_choice = MAN_COORDINATES,
                     !.first_spot_coordinates = [x |-> MinX, y |-> MinY],
                     !.first_spot_row = EnteredRow(0),
                     !.first_spot_col = EnteredCol(0),
                     !.second_spot_coordinates = [x |-> MaxX, y |-> MaxY],
                     !.second_spot_row = EnteredRow(settings.grid_rows - 1),
                     !.second_spot_col = EnteredCol(settings.grid_columns - 1)]

(***************************************************************************)
(* C21: for every origin and at least 2 centroids, the automatic mode      *)
(* gives what the coordinates mode gives for the reference points          *)
(* (minX, minY) at the canonical cell (0, 0) and (maxX, maxY) at the       *)
(* canonical cell (rows - 1, columns - 1); where a grid is built its       *)
(* spacings are (maxX - minX) / (columns - 1) and (maxY - minY) /          *)
(* (rows - 1), whatever the origin.                                        *)
(***************************************************************************)
C21_AutomaticIsManualOfExtremes ==
    (Automatic /\ outcome.ran /\ Cardinality(workspace.centroids) >= 2)
        => \E m \in {run(ExtremesAsSpots, EmptyDictionary, NoWorkspace)} :
              /\ grid = m.grid
              /\ outcome.raised = m.raised
              /\ (settings.grid_rows > 1 /\ settings.grid_columns > 1)
                    => /\ Built
                       /\ grid.x_spacing = Float(MaxX - MinX, settings.grid_columns - 1)
                       /\ grid.y_spacing = Float(MaxY - MinY, settings.grid_rows - 1)

C21_Witness ==
    /\ Automatic
    /\ Built
    /\ Cardinality(workspace.centroids) >= 2
    /\ settings.origin = NUM_BOTTOM_RIGHT
    /\ MaxX - MinX = 1
    /\ settings.grid_columns = MaxCols
    /\ grid.x_spacing = << 1, MaxCols - 1 >>
    /\ grid = run(ExtremesAsSpots, EmptyDictionary, NoWorkspace).grid

\* the name DefinedGrid_<GridName>_<Feature> as the tuple of its parts
MeasurementName(feature) == << "DefinedGrid", settings.grid_image, feature >>

\* the names get_measurement_columns declares
DeclaredNames ==
    { get_measurement_columns(settings)[i][2] :
        i \in 1..Len(get_measurement_columns(settings)) }

Derived ==
    /\ outcome.ran
    /\ outcome.raised = None
    /\ ~outcome.too_few
    /\ (Automatic \/ Coordinates)

C24_CacheFollowsCompletionOrder ==
    /\ (settings.failed_grid_choice = FAIL_FIRST /\ first_success # None)
          => Cached = first_success
    /\ (settings.failed_grid_choice = FAIL_ANY_PREVIOUS /\ last_success # None)
          => Cached = last_success

\* the image has at least 2 centroids and the grid has one row or one column
DegenerateCase ==
    /\ Automatic
    /\ outcome.ran
    /\ Cardinality(workspace.centroids) >= 2
    /\ (settings.grid_rows = 1 \/ settings.grid_columns = 1)

\* descriptors of earlier images: grids of MaxRows x MaxCols cells derived
\* from at least two centroids
EarlierDescriptors ==
    { grid_of_centroids([settings EXCEPT !.grid_rows = MaxRows,
                                         !.grid_columns = MaxCols], c) :
        c \in { cs \in SUBSET Points : Cardinality(cs) >= 2 } }

\* the empty dictionary and the dictionaries in which such a descriptor was stored
Caches ==
    {EmptyDictionary} \cup { [k \in {GOOD_GRIDDING} |-> g] : g \in EarlierDescriptors }

(***************************************************************************)
(* C25: in automatic mode with one row or one column and at least 2        *)
(* centroids, run raises the division error for the image under every      *)
(* failure policy, registers no grid and no measurement, and does so       *)
(* whatever the dictionary holds, which it leaves as it was.               *)
(***************************************************************************)
C25_DegenerateIsAlwaysFatal ==
    DegenerateCase
        => /\ outcome.raised = ZeroDivisionError
           /\ grid = None
           /\ measurements = NoMeasurements
           /\ \A d \in Caches :
                 LET r == run(settings, d, workspace)
                 IN  /\ r.raised = ZeroDivisionError
                     /\ r.grid = None
                     /\ r.dictionary = d

C25_Witness ==
    /\ DegenerateCase
    /\ settings.grid_rows = 1
    /\ settings.grid_columns > 1
    /\ settings.failed_grid_choice = FAIL_FIRST
    /\ outcome.raised = ZeroDivisionError
    /\ Cardinality(Caches) > 2

\* the number the spot table holds at a canonical position (counted from 0)
SpotAt(position) == grid.spot_table[position[1] + 1][position[2] + 1]

(***************************************************************************)
(* C26: the spot table and canonical_row_and_column agree on the origin    *)
(* corner: for each of the eight combinations of origin and order the      *)
(* table holds 1 at canonical_row_and_column(1, 1) and rows * columns at   *)
(* canonical_row_and_column(rows, columns).                                *)
(***************************************************************************)
C26_NumberingStartsAtOrigin ==
    Built
        => /\ SpotAt(canonical_row_and_column(settings, 1, 1)) = 1
           /\ SpotAt(canonical_row_and_column(settings, settings.grid_rows,
                                              settings.grid_columns))
                 = settings.grid_rows * settings.grid_columns

C26_Witness ==
    /\ Built
    /\ settings.grid_rows = MaxRows
    /\ settings.grid_columns = MaxCols
    /\ settings.origin = NUM_BOTTOM_LEFT
    /\ settings.ordering = NUM_BY_COLUMNS
    /\ canonical_row_and_column(settings, 1, 1) = << MaxRows - 1, 0 >>
    /\ grid.spot_table[MaxRows][1] = 1
    /\ grid.spot_table[1][MaxCols] = MaxRows * MaxCols

(***************************************************************************)
(* C27: for each origin canonical_row_and_column maps the entries          *)
(* {1..rows} x {1..columns} one-to-one onto the canonical cells            *)
(* {0..rows-1} x {0..columns-1}; two entries have the same canonical row   *)
(* (column) exactly when they have the same entered row (column).          *)
(***************************************************************************)
C27_CanonicalIsBijection ==
    LET InGridEntries == (1..settings.grid_rows) \X (1..settings.grid_columns)
        CanonicalCells == (0..(settings.grid_rows - 1)) \X (0..(settings.grid_columns - 1))
    IN  outcome.ran
          => /\ { canonical_row_and_column(settings, e[1], e[2]) : e \in InGridEntries }
                   = CanonicalCells
             /\ \A a \in InGridEntries, b \in InGridEntries :
                   LET ca == canonical_row_and_column(settings, a[1], a[2])
                       cb == canonical_row_and_column(settings, b[1], b[2])
                   IN  /\ (ca = cb) <=> (a = b)
                       /\ (ca[1] = cb[1]) <=> (a[1] = b[1])
                       /\ (ca[2] = cb[2]) <=> (a[2] = b[2])

C27_Witness ==
    /\ Coordinates
    /\ outcome.ran
    /\ settings.origin = NUM_BOTTOM_RIGHT
    /\ settings.grid_rows = MaxRows
    /\ settings.grid_columns = MaxCols
    /\ P1.row = P2.row
    /\ P1.col # P2.col
    /\ canonical_row_and_column(settings, P1.row, P1.col)[1]
          = canonical_row_and_column(settings, P2.row, P2.col)[1]
    /\ canonical_row_and_column(settings, P1.row, P1.col)[2]
          # canonical_row_and_column(settings, P2.row, P2.col)[2]
    /\ outcome.raised = ZeroDivisionError

\* the image has fewer than 2 centroids and the policy allows the stored
\* gridding in its place
SubstitutionPath ==
    /\ Automatic
    /\ Cardinality(workspace.centroids) < 2
    /\ settings.failed_grid_choice \in {FAIL_ANY_PREVIOUS, FAIL_FIRST}

ValueOf(name) ==
    saved.result[1][CHOOSE i \in 1..Len(settings_order) : settings_order[i] = name]

\* the x and y spacing the Matlab module was saved with (10 where the text
\* is not two integers)
SavedSpacing ==
    LET t == saved.setting_values[13]
    IN  IF parses_as_pair(t) THEN << t[1].n, t[2].n >> ELSE << 10, 10 >>

DialogOpens == settings.grid_rows > 1 /\ settings.grid_columns > 1

\* the releases of the mouse button inside the image among the events, and
\* the ones assigned to the first (1) or the second (2) cell when the
\* releases alternate, starting with the first cell
Releases(events) == SelectSeq(events, LAMBDA e : e.type = "button_release" /\ e.inaxes)
AssignedTo(cell, events) == { k \in 1..Len(Releases(events)) : k % 2 = cell % 2 }

\* the whole pixel of a position
Pixel(f) == CHOOSE o \in 0..(3 * MaxCoord + 2) : Truncates(o, f)

\* the position of a cell after the events: the pixel of the latest release
\* assigned to it, or the initial value
CellPosition(cell, events) ==
    IF AssignedTo(cell, events) = {}
    THEN IF cell = 1
         THEN [x |-> MouseFirstXY, y |-> MouseFirstXY]
         ELSE [x |-> MouseSecondXY, y |-> MouseSecondXY]
    ELSE LET k == CHOOSE i \in AssignedTo(cell, events) :
                     \A j \in AssignedTo(cell, events) : j <= i
         IN  [x |-> Pixel(Releases(events)[k].xdata),
              y |-> Pixel(Releases(events)[k].ydata)]

\* the grid of the cell positions after the events: the first cell at row 1
\* and column 1, the second at the last row and column
GridOfLatest(events) ==
    build_grid_info(settings,
                    CellPosition(1, events).x, CellPosition(1, events).y, 1, 1,
                    CellPosition(2, events).x, CellPosition(2, events).y,
                    settings.grid_rows, settings.grid_columns)

(***************************************************************************)
(* C30: in the dialog of the mouse mode the releases inside the image go   *)
(* to the first and the second cell in turn, the first cell first; after   *)
(* each event the grid of the dialog is the grid of the latest release     *)
(* assigned to each cell (of the initial values for a cell never clicked); *)
(* OK returns that grid, and after Cancel run raises and registers no      *)
(* grid.                                                                   *)
(***************************************************************************)
C30_DialogReturnsLatestGrid ==
    (settings.manual_choice = MAN_MOUSE /\ outcome.ran /\ DialogOpens)
        => /\ workspace.status = WX_OK
                => /\ outcome.raised = None
                   /\ grid = GridOfLatest(workspace.events)
           /\ workspace.status = WX_CANCEL
                => /\ outcome.raised = RuntimeError(ABORTED)
                   /\ grid = None
                   /\ measurements = NoMeasurements
           /\ \A n \in 0..Len(workspace.events) :
                 run_mouse(settings, SubSeq(workspace.events, 1, n), WX_OK)
                    = GridOfLatest(SubSeq(workspace.events, 1, n))

C30_Witness ==
    /\ settings.manual_choice = MAN_MOUSE
    /\ outcome.ran
    /\ DialogOpens
    /\ workspace.status = WX_OK
    /\ Len(Releases(workspace.events)) = 3
    /\ Releases(workspace.events)[1] # Releases(workspace.events)[3]
    /\ CellPosition(1, workspace.events).x = Pixel(Releases(workspace.events)[3].xdata)
    /\ CellPosition(1, workspace.events).x # Pixel(Releases(workspace.events)[1].xdata)
    /\ grid = GridOfLatest(workspace.events)

====
